---- MODULE Spec2Model ----
(***************************************************************************)
(* Model of the Sydney Airport flight-statistics server.                   *)
(*                                                                         *)
(* Two versions of the server live in the repository:                      *)
(*   src/app.js            scrapes the flight page with a headless browser *)
(*                         (getFlightTimes), called "scrape" below;        *)
(*   src/unnamed/part_000  calls the airport's JSON API with axios         *)
(*                         (getFlightData), called "api" below.            *)
(* Both serve GET /api/flights: validate the query, await the acquisition  *)
(* of the raw flight records, normalise them, aggregate them into the      *)
(* report and answer.                                                      *)
(*                                                                         *)
(* JavaScript strings are sequences of one-character strings, so that      *)
(* toLowerCase, includes, trim, split and parseInt are computed and not    *)
(* assumed.  A JavaScript value that may be undefined, null, a string, a   *)
(* number or an array is a record tagged by its type.                      *)
(***************************************************************************)
EXTENDS Integers, Sequences, FiniteSets, TLC

\* ------------------------------------------------------------------ bounds

\* Longest list of raw records one acquisition returns in the model.
MaxFlights == 3

\* ------------------------------------------------- JavaScript value helpers

Undefined == [t |-> "undefined"]
Null == [t |-> "null"]
Str(s) == [t |-> "string", s |-> s]
Num(n) == [t |-> "number", n |-> n]
Arr(a) == [t |-> "array", a |-> a]

\* JavaScript truthiness of a tagged value.
Truthy(v) ==
    CASE v.t = "undefined" -> FALSE
      [] v.t = "null" -> FALSE
      [] v.t = "string" -> v.s # <<>>
      [] v.t = "number" -> v.n # 0
      [] OTHER -> TRUE

IsArray(v) == v.t = "array"

UpperToLower ==
    [c \in {"A", "B", "C", "D", "E", "F", "G", "H", "I", "J", "K", "L", "M",
            "N", "O", "P", "Q", "R", "S", "T", "U", "V", "W", "X", "Y", "Z"} |->
        CASE c = "A" -> "a" [] c = "B" -> "b" [] c = "C" -> "c" [] c = "D" -> "d"
          [] c = "E" -> "e" [] c = "F" -> "f" [] c = "G" -> "g" [] c = "H" -> "h"
          [] c = "I" -> "i" [] c = "J" -> "j" [] c = "K" -> "k" [] c = "L" -> "l"
          [] c = "M" -> "m" [] c = "N" -> "n" [] c = "O" -> "o" [] c = "P" -> "p"
          [] c = "Q" -> "q" [] c = "R" -> "r" [] c = "S" -> "s" [] c = "T" -> "t"
          [] c = "U" -> "u" [] c = "V" -> "v" [] c = "W" -> "w" [] c = "X" -> "x"
          [] c = "Y" -> "y" [] OTHER -> "z"]

\* String.prototype.toLowerCase
toLowerCase(s) ==
    [i \in 1..Len(s) |-> IF s[i] \in DOMAIN UpperToLower THEN UpperToLower[s[i]] ELSE s[i]]

\* String.prototype.includes
includes(s, sub) ==
    \E i \in 0..(Len(s) - Len(sub)) : SubSeq(s, i + 1, i + Len(sub)) = sub

WhiteSpace == {" "}

RECURSIVE trimStart(_)
trimStart(s) ==
    IF s # <<>> /\ Head(s) \in WhiteSpace THEN trimStart(Tail(s)) ELSE s

RECURSIVE trimEnd(_)
trimEnd(s) ==
    IF s # <<>> /\ s[Len(s)] \in WhiteSpace THEN trimEnd(SubSeq(s, 1, Len(s) - 1)) ELSE s

\* String.prototype.trim
trim(s) == trimEnd(trimStart(s))

\* s.split(':')[0]: the text before the first colon (all of s when it has none).
RECURSIVE splitFirst(_)
splitFirst(s) ==
    IF s = <<>> \/ Head(s) = ":" THEN <<>> ELSE <<Head(s)>> \o splitFirst(Tail(s))

Digits == <<"0", "1", "2", "3", "4", "5", "6", "7", "8", "9">>

IsDigit(c) == \E d \in 1..Len(Digits) : Digits[d] = c

DigitValue(c) == (CHOOSE d \in 1..Len(Digits) : Digits[d] = c) - 1

\* The value of the longest prefix of decimal digits of s, given the value acc
\* of the digits already read.
RECURSIVE digitsValue(_, _)
digitsValue(s, acc) ==
    IF s # <<>> /\ IsDigit(Head(s))
    THEN digitsValue(Tail(s), acc * 10 + DigitValue(Head(s)))
    ELSE acc

\* parseInt(text, 10): leading white space is skipped, an optional sign is read,
\* then the longest run of digits; NaN when there is no digit.
parseInt(text) ==
    LET s == trimStart(text)
        signed == s # <<>> /\ Head(s) \in {"+", "-"}
        body == IF signed THEN Tail(s) ELSE s
        mag == digitsValue(body, 0)
    IN  IF body = <<>> \/ ~IsDigit(Head(body))
        THEN [isNaN |-> TRUE, value |-> 0]
        ELSE [isNaN |-> FALSE,
              value |-> IF signed /\ Head(s) = "-" THEN 0 - mag ELSE mag]

\* Array.prototype.join(', ') on an array of strings.
RECURSIVE join(_)
join(a) ==
    IF a = <<>> THEN <<>>
    ELSE IF Len(a) = 1 THEN a[1]
    ELSE a[1] \o <<",", " ">> \o join(Tail(a))

\* x || '' for x undefined or a string.
orEmpty(v) == IF Truthy(v) THEN v.s ELSE <<>>

\* ------------------------------------------------------------- raw inputs

\* Text literals used by the raw records below.
T0915 == <<"0", "9", ":", "1", "5">>
T0940 == <<"0", "9", ":", "4", "0">>
T1005 == <<"1", "0", ":", "0", "5">>
T1405 == <<"1", "4", ":", "0", "5">>
T2410 == <<"2", "4", ":", "1", "0">>
T2440 == <<"2", "4", ":", "4", "0">>
Dash == <<"-">>
QantasAirways == <<"Q", "a", "n", "t", "a", "s", " ", "A", "i", "r", "w", "a", "y", "s">>
QANTAS == <<"Q", "A", "N", "T", "A", "S">>
Jetstar == <<"J", "e", "t", "s", "t", "a", "r">>
Rex == <<"R", "e", "x">>
OnTime == <<"O", "n", " ", "T", "i", "m", "e">>
Delayed == <<"D", "e", "l", "a", "y", "e", "d">>
Cancelled == <<"C", "a", "n", "c", "e", "l", "l", "e", "d">>
DelayExpected == <<"D", "e", "l", "a", "y", " ", "e", "x", "p", "e", "c", "t", "e", "d">>
Melbourne == <<"M", "e", "l", "b", "o", "u", "r", "n", "e">>
Perth == <<"P", "e", "r", "t", "h">>
QF1 == <<"Q", "F", "1">>
JQ7 == <<"J", "Q", "7">>
Red == <<"r", "e", "d">>
Amber == <<"a", "m", "b", "e", "r">>

\* An API record with every field absent: the object {}.
ApiEmptyRecord ==
    [t |-> "object", id |-> Undefined, scheduledTime |-> Undefined,
     estimatedTime |-> Undefined, status |-> Undefined, statusColor |-> Undefined,
     airline |-> Undefined, airlineCode |-> Undefined, flightNumbers |-> Undefined,
     origins |-> Undefined, destinations |-> Undefined]

\* The elements data.flightData may hold: the empty object, null, the three
\* flights of the documented scenario written as the API writes them, a flight
\* past midnight with an estimate but no status text, and a record whose status
\* is a number.
ApiRawRecords ==
    { ApiEmptyRecord,
      Null,
      [ApiEmptyRecord EXCEPT !.id = Num(1), !.scheduledTime = Str(T0915),
          !.estimatedTime = Str(T0915), !.status = Str(OnTime),
          !.airline = Str(QantasAirways), !.flightNumbers = Arr(<<QF1, JQ7>>),
          !.destinations = Arr(<<Melbourne>>)],
      [ApiEmptyRecord EXCEPT !.id = Num(2), !.scheduledTime = Str(T0940),
          !.estimatedTime = Str(T1005), !.status = Str(Delayed),
          !.statusColor = Str(Amber), !.airline = Str(Jetstar),
          !.origins = Arr(<<Perth, Melbourne>>)],
      [ApiEmptyRecord EXCEPT !.id = Num(3), !.scheduledTime = Str(T1405),
          !.estimatedTime = Str(Dash), !.status = Str(Cancelled),
          !.statusColor = Str(Red), !.airline = Str(QANTAS),
          !.flightNumbers = Arr(<<QF1>>)],
      [ApiEmptyRecord EXCEPT !.id = Num(4), !.scheduledTime = Str(T2410),
          !.estimatedTime = Str(T2440), !.airline = Str(Rex)],
      [ApiEmptyRecord EXCEPT !.id = Num(5), !.scheduledTime = Str(T0915),
          !.status = Num(123)] }

\* A scraped .flight-card: the text of each element the scraper looks up
\* (Undefined when the element is missing), the classes of the .status element
\* and whether the card holds a .delayed-time-small element.
DomEmptyCard ==
    [t |-> "card", scheduledTime |-> Undefined, flightNumber |-> Undefined,
     origin |-> Undefined, statusText |-> Undefined, red |-> FALSE, amber |-> FALSE,
     delayedTimeSmall |-> FALSE, airline |-> Undefined]

DomRawCards ==
    { DomEmptyCard,
      [DomEmptyCard EXCEPT !.scheduledTime = Str(<<" ">> \o T0915 \o <<" ">>),
          !.statusText = Str(OnTime), !.airline = Str(QantasAirways),
          !.flightNumber = Str(QF1), !.origin = Str(Melbourne)],
      [DomEmptyCard EXCEPT !.scheduledTime = Str(T0940), !.statusText = Str(Delayed),
          !.amber = TRUE, !.airline = Str(Jetstar), !.origin = Str(Perth)],
      [DomEmptyCard EXCEPT !.scheduledTime = Str(T1405), !.statusText = Str(Cancelled),
          !.red = TRUE, !.airline = Str(QANTAS), !.flightNumber = Str(QF1)],
      [DomEmptyCard EXCEPT !.scheduledTime = Str(T2410), !.delayedTimeSmall = TRUE,
          !.airline = Str(Rex)],
      [DomEmptyCard EXCEPT !.scheduledTime = Str(T1005),
          !.statusText = Str(DelayExpected), !.airline = Str(Jetstar)] }

\* All lists of at most n elements of S.
RECURSIVE ListsUpTo(_, _)
ListsUpTo(S, n) ==
    IF n = 0 THEN {<<>>}
    ELSE LET shorter == ListsUpTo(S, n - 1)
         IN  shorter \cup {Append(l, e) : l \in {k \in shorter : Len(k) = n - 1}, e \in S}

\* How far data.totalFlightCount may exceed the length of data.flightData (the
\* API is asked for the first 1000 flights of the day).
TotalCountExcess == {0, 1}

\* What axios.get resolves to: response.data.
ApiPayloads ==
    { Null,
      [t |-> "object", flightData |-> Undefined, totalFlightCount |-> 0],
      [t |-> "object", flightData |-> Str(Dash), totalFlightCount |-> 1] }
    \cup { [t |-> "object", flightData |-> Arr(l), totalFlightCount |-> Len(l) + e] :
             l \in ListsUpTo(ApiRawRecords, MaxFlights), e \in TotalCountExcess }

\* What document.querySelectorAll('.flight-card') holds when the page is
\* evaluated.  The wait for the first .flight-card and the evaluation are two
\* separate round trips to a page that re-renders itself, so the list may be
\* empty by then.
DomPages == ListsUpTo(DomRawCards, MaxFlights)

\* ----------------------------------------------------- errors and results

Thrown(err) == [t |-> "throw", error |-> err]
Ok(v) == [t |-> "ok", v |-> v]
IsThrown(r) == r.t = "throw"

TypeError == [name |-> "TypeError", message |-> "Cannot read properties"]
FormatError == [name |-> "Error", message |-> "Unexpected API response format"]
NetworkError == [name |-> "AxiosError", message |-> "Network Error"]
AxiosTimeout == [name |-> "AxiosError", message |-> "timeout of 30000ms exceeded"]
SelectorTimeout == [name |-> "Error", message |-> "Timeout waiting for flight data"]
NavigationTimeout == [name |-> "TimeoutError", message |-> "Navigation timeout of 60000 ms exceeded"]

\* ------------------------------------------ normalisation, API (part_000)

\* Status of one API record (let status = 'on time'; if (flight.status) ...).
\* flight.status.toLowerCase() throws when the truthy status is not a string.
ApiStatus(flight) ==
    IF ~Truthy(flight.status) THEN Ok("on time")
    ELSE IF flight.status.t # "string" THEN Thrown(TypeError)
    ELSE LET statusLower == toLowerCase(flight.status.s)
         IN  IF includes(statusLower, <<"c", "a", "n", "c", "e", "l">>)
             THEN Ok("cancelled")
             ELSE IF \/ includes(statusLower, <<"d", "e", "l", "a", "y">>)
                     \/ /\ Truthy(flight.estimatedTime)
                        /\ flight.estimatedTime # flight.scheduledTime
                        /\ flight.estimatedTime # Str(Dash)
             THEN Ok("delayed")
             ELSE Ok("on time")

\* Mutant of ApiIsT3: the guard on a missing airline is dropped, so toLowerCase
\* is called on undefined.
ApiIsT3Unguarded(flight) ==
    IF flight.airline.t # "string" THEN Thrown(TypeError)
    ELSE Ok(includes(toLowerCase(flight.airline.s), <<"q", "a", "n", "t", "a", "s">>))

\* Mutant of ApiIsT3: the airline is matched without toLowerCase.
ApiIsT3CaseSensitive(flight) ==
    IF ~Truthy(flight.airline) THEN Ok(FALSE)
    ELSE IF flight.airline.t # "string" THEN Thrown(TypeError)
    ELSE Ok(includes(flight.airline.s, <<"q", "a", "n", "t", "a", "s">>))

\* const isT3 = flight.airline && flight.airline.toLowerCase().includes('qantas'),
\* as the condition of isT3 ? 'T3' : 'T2'.
ApiIsT3(flight) ==
    IF ~Truthy(flight.airline) THEN Ok(FALSE)
    ELSE IF flight.airline.t # "string" THEN Thrown(TypeError)
    ELSE Ok(includes(toLowerCase(flight.airline.s), <<"q", "a", "n", "t", "a", "s">>))

ApiLocation(flight) ==
    IF IsArray(flight.destinations) THEN join(flight.destinations.a)
    ELSE IF IsArray(flight.origins) THEN join(flight.origins.a)
    ELSE <<>>

ApiFlightNumber(flight) ==
    IF IsArray(flight.flightNumbers) THEN join(flight.flightNumbers.a) ELSE <<>>

\* The callback of data.flightData.map: the processed flight, or the TypeError
\* it throws (reading a property of null, or calling toLowerCase on a non-string).
ApiProcessFlight(flight) ==
    IF flight.t # "object" THEN Thrown(TypeError)
    ELSE IF IsThrown(ApiStatus(flight)) THEN ApiStatus(flight)
    ELSE IF IsThrown(ApiIsT3(flight)) THEN ApiIsT3(flight)
    ELSE Ok([id |-> flight.id,
             scheduledTime |-> orEmpty(flight.scheduledTime),
             estimatedTime |-> orEmpty(flight.estimatedTime),
             status |-> ApiStatus(flight).v,
             statusColor |-> orEmpty(flight.statusColor),
             airline |-> orEmpty(flight.airline),
             airlineCode |-> orEmpty(flight.airlineCode),
             flightNumber |-> ApiFlightNumber(flight),
             location |-> ApiLocation(flight),
             terminal |-> IF ApiIsT3(flight).v THEN "T3" ELSE "T2",
             rawStatus |-> IF Truthy(flight.status) THEN flight.status ELSE Str(<<"U", "n", "k", "n", "o", "w", "n">>)])

\* The payload check of getFlightData.
ApiPayloadOk(data) ==
    ~(~Truthy(data) \/ ~Truthy(data.flightData) \/ ~IsArray(data.flightData))

\* getFlightData once axios.get has settled: response is Thrown(err) when the
\* request was rejected, Ok(data) when it resolved.  Array.prototype.map has no
\* try/catch around its callback here: the first record that throws ends the
\* map, and the catch block rethrows.
getFlightData(response) ==
    IF IsThrown(response) THEN response
    ELSE IF ~ApiPayloadOk(response.v) THEN Thrown(FormatError)
    ELSE LET raw == response.v.flightData.a
             processed == [i \in 1..Len(raw) |-> ApiProcessFlight(raw[i])]
         IN  IF \E i \in 1..Len(raw) : IsThrown(processed[i])
             THEN processed[CHOOSE i \in 1..Len(raw) :
                              /\ IsThrown(processed[i])
                              /\ \A j \in 1..(i - 1) : ~IsThrown(processed[j])]
             ELSE Ok([totalFlights |-> response.v.totalFlightCount,
                      flights |-> [i \in 1..Len(raw) |-> processed[i].v]])

\* ------------------------------------------- normalisation, scrape (app.js)

\* element ? element.textContent.trim() : ''
textOrEmpty(el) == IF el = Undefined THEN <<>> ELSE trim(el.s)

\* Status of one scraped card (let status = 'on time'; if (statusElement) ...).
DomStatus(card) ==
    IF card.statusText = Undefined THEN "on time"
    ELSE LET statusText == toLowerCase(trim(card.statusText.s))
             hasRedClass == card.red
         IN  IF includes(statusText, <<"c", "a", "n", "c", "e", "l", "l", "e", "d">>) \/ hasRedClass
             THEN "cancelled"
             ELSE IF \/ includes(statusText, <<"d", "e", "l", "a", "y", "e", "d">>)
                     \/ card.amber
                     \/ card.delayedTimeSmall
             THEN "delayed"
             ELSE "on time"

\* The body of the try block of flightCards.forEach: the flight pushed.  Every
\* element lookup is guarded, so nothing in it throws.
DomProcessCard(card) ==
    Ok([scheduledTime |-> textOrEmpty(card.scheduledTime),
        status |-> DomStatus(card),
        airline |-> toLowerCase(textOrEmpty(card.airline)),
        flightNumber |-> textOrEmpty(card.flightNumber),
        origin |-> textOrEmpty(card.origin),
        rawStatus |-> IF card.statusText = Undefined
                      THEN <<"U", "n", "k", "n", "o", "w", "n">>
                      ELSE trim(card.statusText.s)])

\* flightCards.forEach with its try/catch: a card whose processing throws is
\* skipped, the others are pushed in page order.
RECURSIVE DomCollect(_)
DomCollect(cards) ==
    IF cards = <<>> THEN <<>>
    ELSE LET r == DomProcessCard(Head(cards))
         IN  (IF IsThrown(r) THEN <<>> ELSE <<r.v>>) \o DomCollect(Tail(cards))

\* getFlightTimes once the browser work has settled: outcome is Thrown(err) when
\* launch, navigation or the wait for .flight-card failed, Ok(cards) when
\* page.evaluate ran over the cards of the page.
getFlightTimes(outcome) ==
    IF IsThrown(outcome) THEN outcome ELSE Ok(DomCollect(outcome.v))

\* ------------------------------------------------------------ aggregation

HoursPerDay == 24
SampleSize == 5
Infinity == -1

Hours == 0..(HoursPerDay - 1)

\* a < b for counts, where b may be Infinity.
lessThan(a, b) == b = Infinity \/ (a # Infinity /\ a < b)

\* The key `${hour}-${hour + 1}` of flight_count and of peak_hours.
HourKey(hour) == <<hour, hour + 1>>

ZeroBucket == [T2 |-> 0, T3 |-> 0, total |-> 0]

\* flight_statuses: three filter(...).length counts.
flightStatuses(flights) ==
    [on_time |-> Cardinality({i \in 1..Len(flights) : flights[i].status = "on time"}),
     cancelled |-> Cardinality({i \in 1..Len(flights) : flights[i].status = "cancelled"}),
     delayed |-> Cardinality({i \in 1..Len(flights) : flights[i].status = "delayed"})]

\* Mutant of uniqueValues: the Set is left out, so only '' is filtered and a
\* repeated value is listed each time it occurs.
RECURSIVE uniqueValuesNoSet(_, _)
uniqueValuesNoSet(values, seen) ==
    IF values = <<>> THEN <<>>
    ELSE (IF Head(values) = <<>> THEN <<>> ELSE <<Head(values)>>)
         \o uniqueValuesNoSet(Tail(values), seen)

\* [...new Set(values)].filter(Boolean): first occurrences in order, '' dropped.
RECURSIVE uniqueValues(_, _)
uniqueValues(values, seen) ==
    IF values = <<>> THEN <<>>
    ELSE IF Head(values) \in seen THEN uniqueValues(Tail(values), seen)
    ELSE (IF Head(values) = <<>> THEN <<>> ELSE <<Head(values)>>)
         \o uniqueValues(Tail(values), seen \cup {Head(values)})

\* const [hour] = flight.scheduledTime.split(':'); parseInt(hour, 10)
flightHour(flight) == parseInt(splitFirst(flight.scheduledTime))

\* part_000: const isT3 = flight.terminal === 'T3'
ApiHistogramIsT3(flight) == flight.terminal = "T3"

\* app.js: const isT3 = flight.airline.includes('qantas')
DomHistogramIsT3(flight) == includes(flight.airline, <<"q", "a", "n", "t", "a", "s">>)

\* Mutant of countFlight: the increments sit in an else branch, so the flight
\* that creates a bucket is not counted in it.
countFlightElse(byHour, hour, isT3) ==
    IF hour.isNaN THEN byHour
    ELSE LET h == hour.value
             new == IF h \notin DOMAIN byHour THEN ZeroBucket
                    ELSE [T2 |-> IF isT3 THEN byHour[h].T2 ELSE byHour[h].T2 + 1,
                          T3 |-> IF isT3 THEN byHour[h].T3 + 1 ELSE byHour[h].T3,
                          total |-> byHour[h].total + 1]
         IN  [k \in DOMAIN byHour \cup {h} |-> IF k = h THEN new ELSE byHour[k]]

\* Mutant of countFlight: the terminal counter is incremented, the bucket's
\* total is not.
countFlightNoTotal(byHour, hour, isT3) ==
    IF hour.isNaN THEN byHour
    ELSE LET h == hour.value
             cur == IF h \in DOMAIN byHour THEN byHour[h] ELSE ZeroBucket
             new == [T2 |-> IF isT3 THEN cur.T2 ELSE cur.T2 + 1,
                     T3 |-> IF isT3 THEN cur.T3 + 1 ELSE cur.T3,
                     total |-> cur.total]
         IN  [k \in DOMAIN byHour \cup {h} |-> IF k = h THEN new ELSE byHour[k]]

\* The body of flights.forEach: one flight added to flightCountByHour, an object
\* keyed by whatever integer parseInt returned.
countFlight(byHour, hour, isT3) ==
    IF hour.isNaN THEN byHour
    ELSE LET h == hour.value
             cur == IF h \in DOMAIN byHour THEN byHour[h] ELSE ZeroBucket
             new == [T2 |-> IF isT3 THEN cur.T2 ELSE cur.T2 + 1,
                     T3 |-> IF isT3 THEN cur.T3 + 1 ELSE cur.T3,
                     total |-> cur.total + 1]
         IN  [k \in DOMAIN byHour \cup {h} |-> IF k = h THEN new ELSE byHour[k]]

\* flightCountByHour after the forEach over entries, each the parsed hour and
\* the isT3 flag of one flight, in list order.
RECURSIVE flightCountByHour(_, _)
flightCountByHour(entries, byHour) ==
    IF entries = <<>> THEN byHour
    ELSE flightCountByHour(Tail(entries),
                           countFlight(byHour, Head(entries).hour, Head(entries).isT3))

ApiEntries(flights) ==
    [i \in 1..Len(flights) |->
        [hour |-> flightHour(flights[i]), isT3 |-> ApiHistogramIsT3(flights[i])]]

DomEntries(flights) ==
    [i \in 1..Len(flights) |->
        [hour |-> flightHour(flights[i]), isT3 |-> DomHistogramIsT3(flights[i])]]

EmptyObject == [h \in {} |-> ZeroBucket]

\* flightCountByHour[hour]?.total || 0
hourCount(byHour, hour) == IF hour \in DOMAIN byHour THEN byHour[hour].total ELSE 0

\* Mutant of peakStep: >= and <= in place of > and <, so the last hour of a tie
\* wins.
peakStepLastWins(st, hour, count) ==
    LET afterMax == IF count >= st.maxFlights
                    THEN [st EXCEPT !.maxFlights = count, !.maxHour = hour]
                    ELSE st
    IN  IF (lessThan(count, st.minFlights) \/ count = st.minFlights) /\ count > 0
        THEN [afterMax EXCEPT !.minFlights = count, !.minHour = hour]
        ELSE afterMax

\* One pass of the for loop over the hours: the running maximum and minimum.
peakStep(st, hour, count) ==
    LET afterMax == IF count > st.maxFlights
                    THEN [st EXCEPT !.maxFlights = count, !.maxHour = hour]
                    ELSE st
    IN  IF lessThan(count, st.minFlights) /\ count > 0
        THEN [afterMax EXCEPT !.minFlights = count, !.minHour = hour]
        ELSE afterMax

\* The for loop from hour on.
RECURSIVE peakLoop(_, _, _)
peakLoop(byHour, hour, st) ==
    IF hour >= HoursPerDay THEN st
    ELSE peakLoop(byHour, hour + 1, peakStep(st, hour, hourCount(byHour, hour)))

PeakInit == [maxFlights |-> 0, minFlights |-> Infinity, maxHour |-> 0, minHour |-> 0]

\* flight_count: every hour 0..23 under its key.
flightCount(byHour) ==
    [k \in {HourKey(h) : h \in Hours} |->
        IF k[1] \in DOMAIN byHour THEN byHour[k[1]] ELSE ZeroBucket]

\* part_000: peak_hours, with maxFlights || 0 and Infinity replaced by 0.
ApiPeakHours(byHour) ==
    LET st == peakLoop(byHour, 0, PeakInit)
    IN  [max_flights |-> [hour |-> HourKey(st.maxHour), count |-> st.maxFlights],
         lowest_flights |-> [hour |-> HourKey(st.minHour),
                             count |-> IF st.minFlights # Infinity THEN st.minFlights ELSE 0]]

\* app.js: peak_hours, maxFlights and minFlights as the loop left them.
DomPeakHours(byHour) ==
    LET st == peakLoop(byHour, 0, PeakInit)
    IN  [max_flights |-> [hour |-> HourKey(st.maxHour), count |-> st.maxFlights],
         lowest_flights |-> [hour |-> HourKey(st.minHour), count |-> st.minFlights]]

\* flights.slice(0, 5)
sampleFlights(flights) ==
    SubSeq(flights, 1, IF Len(flights) < SampleSize THEN Len(flights) ELSE SampleSize)

\* ------------------------------------------------------------- the request

Today == <<"t", "o", "d", "a", "y">>
Yesterday == <<"y", "e", "s", "t", "e", "r", "d", "a", "y">>
Tomorrow == <<"t", "o", "m", "o", "r", "r", "o", "w">>
DayAfterTomorrow ==
    <<"d", "a", "y", "_", "a", "f", "t", "e", "r", "_", "t", "o", "m", "o", "r", "r", "o", "w">>
Domestic == <<"d", "o", "m", "e", "s", "t", "i", "c">>
International ==
    <<"i", "n", "t", "e", "r", "n", "a", "t", "i", "o", "n", "a", "l">>
Arrival == <<"a", "r", "r", "i", "v", "a", "l">>
Departure == <<"d", "e", "p", "a", "r", "t", "u", "r", "e">>
NextWeek == <<"n", "e", "x", "t", "_", "w", "e", "e", "k">>
Domestic2 == Domestic \o <<"2">>
Sideways == <<"s", "i", "d", "e", "w", "a", "y", "s">>

validFlightTypes == <<Domestic, International>>
validDates == <<Today, Yesterday, Tomorrow, DayAfterTomorrow>>
validDirections == <<Arrival, Departure>>

\* Array.prototype.includes
arrayIncludes(a, v) == \E i \in 1..Len(a) : a[i] = v

\* req.query of the requests the model sends: each parameter absent, a valid
\* value, the empty string (?flightType=), or a value outside the accepted set.
QueryDates == {Undefined, Str(Tomorrow), Str(<<>>), Str(NextWeek)}
QueryFlightTypes == {Undefined, Str(International), Str(<<>>), Str(Domestic2)}
QueryDirections == {Undefined, Str(Arrival), Str(<<>>), Str(Sideways)}

AllQueries ==
    [date : QueryDates, flightType : QueryFlightTypes, flightDirection : QueryDirections]

\* The requests the model sends: at most one parameter supplied, or all three
\* supplied with valid values.
Queries ==
    { q \in AllQueries :
        \/ Cardinality({f \in {"date", "flightType", "flightDirection"} : q[f] # Undefined}) <= 1
        \/ q = [date |-> Str(Tomorrow), flightType |-> Str(International),
                flightDirection |-> Str(Arrival)] }

\* A destructuring default: const { date = 'today' } = req.query
withDefault(v, d) == IF v = Undefined THEN Str(d) ELSE v

Valid == [isValid |-> TRUE, message |-> "none"]
Invalid(m) == [isValid |-> FALSE, message |-> m]

\* part_000: validateParams(date, flightType, flightDirection)
ApiValidateParams(date, flightType, flightDirection) ==
    IF Truthy(flightType) /\ ~arrayIncludes(validFlightTypes, flightType.s)
    THEN Invalid("Invalid flight type")
    ELSE IF Truthy(date) /\ ~arrayIncludes(validDates, date.s)
    THEN Invalid("Invalid date")
    ELSE IF Truthy(flightDirection) /\ ~arrayIncludes(validDirections, flightDirection.s)
    THEN Invalid("Invalid flight direction")
    ELSE Valid

\* app.js: validateParams(date, flightType)
DomValidateParams(date, flightType) ==
    IF Truthy(flightType) /\ ~arrayIncludes(validFlightTypes, flightType.s)
    THEN Invalid("Invalid flight type")
    ELSE IF Truthy(date) /\ ~arrayIncludes(validDates, date.s)
    THEN Invalid("Invalid date")
    ELSE Valid

\* The days dateToFetch is moved from today by the date filter.
dateOffset(date) ==
    IF date = Str(Yesterday) THEN 0 - 1
    ELSE IF date = Str(Tomorrow) THEN 1
    ELSE IF date = Str(DayAfterTomorrow) THEN 2
    ELSE 0

\* res.status(400).json({ error: validation.message })
ValidationResponse(validation) == [status |-> 400, body |-> [error |-> validation.message]]

\* Mutant of ApiErrorResponse: .status(500) is left out, so the error body goes
\* out with the default status 200.
ApiErrorResponseNoStatus(error) ==
    [status |-> 200,
     body |-> [error |-> "Failed to fetch flight data",
               message |-> IF error.message # "" THEN error.message ELSE "Unknown error",
               timestamp |-> "now"]]

\* part_000, the handler's catch: res.status(500).json({error, message, timestamp})
ApiErrorResponse(error) ==
    [status |-> 500,
     body |-> [error |-> "Failed to fetch flight data",
               message |-> IF error.message # "" THEN error.message ELSE "Unknown error",
               timestamp |-> "now"]]

\* app.js, the handler's catch.
DomErrorResponse(error) ==
    [status |-> 500,
     body |-> [error |-> "Failed to fetch flight data",
               message |-> error.message,
               timestamp |-> "now"]]

\* part_000: flightCountJSON, sent with res.json (status 200); byHour is
\* flightCountByHour as the forEach over the flights left it.
ApiReport(date, flightType, flightDirection, totalFlights, flights, byHour) ==
        [status |-> 200,
         body |-> [airport |-> "Sydney Airport",
                   date |-> dateOffset(date),
                   flight_type |-> flightType,
                   flight_direction |-> flightDirection,
                   total_flights |-> totalFlights,
                   flight_count |-> flightCount(byHour),
                   flight_statuses |-> flightStatuses(flights),
                   peak_hours |-> ApiPeakHours(byHour),
                   airlines |-> uniqueValues([i \in 1..Len(flights) |-> flights[i].airline], {}),
                   locations |-> uniqueValues([i \in 1..Len(flights) |-> flights[i].location], {}),
                   sample_flights |-> sampleFlights(flights),
                   metadata |-> [processed_at |-> "now", version |-> "1.0",
                                 source |-> "sydney_airport_api"]]]

\* app.js: flightCountJSON, sent with res.json (status 200); byHour is
\* flightCountByHour as the forEach over the flights left it.
DomReport(date, flightType, flightData, byHour) ==
        [status |-> 200,
         body |-> [airport |-> "Sydney Airport",
                   date |-> dateOffset(date),
                   flight_type |-> flightType,
                   total_flights |-> Len(flightData),
                   flight_count |-> flightCount(byHour),
                   flight_statuses |-> flightStatuses(flightData),
                   peak_hours |-> DomPeakHours(byHour),
                   airlines |-> uniqueValues([i \in 1..Len(flightData) |-> flightData[i].airline], {}),
                   origins |-> uniqueValues([i \in 1..Len(flightData) |-> flightData[i].origin], {}),
                   sample_flights |-> sampleFlights(flightData),
                   metadata |-> [processed_at |-> "now", version |-> "1.1"]]]

\* ------------------------------------------------------------------ state

VARIABLES
    impl,          \* which server runs: "api" (part_000) or "scrape" (app.js)
    pc,            \* the handler of the current request: "idle", "awaiting", "done"
    query,         \* req.query of the current request
    acquisitions,  \* axios.get / puppeteer runs started for the current request
    settled,       \* what the awaited acquisition settled to, NotSettled before
    flights,       \* the flights the handler aggregates (after normalisation)
    responses      \* the responses sent for the current request, in order

vars == <<impl, pc, query, acquisitions, settled, flights, responses>>

NotSettled == [t |-> "pending"]
NoQuery == [date |-> Undefined, flightType |-> Undefined, flightDirection |-> Undefined]

Init ==
    /\ impl \in {"api", "scrape"}
    /\ pc = "idle"
    /\ query = NoQuery
    /\ acquisitions = 0
    /\ settled = NotSettled
    /\ flights = <<>>
    /\ responses = <<>>

\* part_000, GET /api/flights up to the await: the parameters are validated;
\* an invalid request is answered 400 at once, a valid one starts getFlightData.
ApiGetFlights(q) ==
    /\ impl = "api"
    /\ pc = "idle"
    /\ query' = q
    /\ settled' = NotSettled
    /\ flights' = <<>>
    /\ LET validation == ApiValidateParams(withDefault(q.date, Today),
                                           withDefault(q.flightType, Domestic),
                                           withDefault(q.flightDirection, Departure))
       IN  IF ~validation.isValid
           THEN /\ responses' = <<ValidationResponse(validation)>>
                /\ acquisitions' = 0
                /\ pc' = "done"
           ELSE /\ responses' = <<>>
                /\ acquisitions' = 1
                /\ pc' = "awaiting"
    /\ UNCHANGED impl

\* part_000, GET /api/flights from the await on: getFlightData returns or
\* throws; the flights are aggregated and the report sent, or the catch block
\* answers 500.
ApiResume(response) ==
    /\ impl = "api"
    /\ pc = "awaiting"
    /\ settled' = response
    /\ \E result \in {getFlightData(response)} :
           IF IsThrown(result)
           THEN /\ flights' = <<>>
                /\ responses' = Append(responses, ApiErrorResponse(result.error))
           ELSE \E byHour \in {flightCountByHour(ApiEntries(result.v.flights), EmptyObject)} :
                /\ flights' = result.v.flights
                /\ responses' = Append(responses,
                                   ApiReport(withDefault(query.date, Today),
                                             withDefault(query.flightType, Domestic),
                                             withDefault(query.flightDirection, Departure),
                                             result.v.totalFlights, result.v.flights, byHour))
    /\ pc' = "done"
    /\ UNCHANGED <<impl, query, acquisitions>>

\* axios.get resolves with a payload.
AxiosResolves ==
    /\ impl = "api"
    /\ pc = "awaiting"
    /\ \E data \in ApiPayloads : ApiResume(Ok(data))

\* axios.get rejects: the source is unreachable or the 30 s timeout passes.
AxiosRejects ==
    /\ impl = "api"
    /\ pc = "awaiting"
    /\ \E err \in {NetworkError, AxiosTimeout} : ApiResume(Thrown(err))

\* app.js, GET /api/flights up to the await.
DomGetFlights(q) ==
    /\ impl = "scrape"
    /\ pc = "idle"
    /\ query' = q
    /\ settled' = NotSettled
    /\ flights' = <<>>
    /\ LET validation == DomValidateParams(withDefault(q.date, Today),
                                           withDefault(q.flightType, Domestic))
       IN  IF ~validation.isValid
           THEN /\ responses' = <<ValidationResponse(validation)>>
                /\ acquisitions' = 0
                /\ pc' = "done"
           ELSE /\ responses' = <<>>
                /\ acquisitions' = 1
                /\ pc' = "awaiting"
    /\ UNCHANGED impl

\* app.js, GET /api/flights from the await on.
DomResume(outcome) ==
    /\ impl = "scrape"
    /\ pc = "awaiting"
    /\ settled' = outcome
    /\ \E result \in {getFlightTimes(outcome)} :
           IF IsThrown(result)
           THEN /\ flights' = <<>>
                /\ responses' = Append(responses, DomErrorResponse(result.error))
           ELSE \E byHour \in {flightCountByHour(DomEntries(result.v), EmptyObject)} :
                /\ flights' = result.v
                /\ responses' = Append(responses,
                                   DomReport(withDefault(query.date, Today),
                                             withDefault(query.flightType, Domestic),
                                             result.v, byHour))
    /\ pc' = "done"
    /\ UNCHANGED <<impl, query, acquisitions>>

\* page.evaluate returns the cards of the page.
PageEvaluated ==
    /\ impl = "scrape"
    /\ pc = "awaiting"
    /\ \E cards \in DomPages : DomResume(Ok(cards))

\* puppeteer fails: navigation times out, or no .flight-card shows within 30 s.
PuppeteerFails ==
    /\ impl = "scrape"
    /\ pc = "awaiting"
    /\ \E err \in {NavigationTimeout, SelectorTimeout} : DomResume(Thrown(err))

\* The handler has answered and returns: the request's values are dropped, and
\* the server waits for the next request.
HandlerReturns ==
    /\ pc = "done"
    /\ pc' = "idle"
    /\ query' = NoQuery
    /\ acquisitions' = 0
    /\ settled' = NotSettled
    /\ flights' = <<>>
    /\ responses' = <<>>
    /\ UNCHANGED impl

\* A request reaches the api server.
ApiRequestArrives ==
    /\ impl = "api"
    /\ pc = "idle"
    /\ \E q \in Queries : ApiGetFlights(q)

\* A request reaches the scrape server.
DomRequestArrives ==
    /\ impl = "scrape"
    /\ pc = "idle"
    /\ \E q \in Queries : DomGetFlights(q)

Next ==
    \/ ApiRequestArrives
    \/ AxiosResolves
    \/ AxiosRejects
    \/ DomRequestArrives
    \/ PageEvaluated
    \/ PuppeteerFails
    \/ HandlerReturns

Spec == Init /\ [][Next]_vars

\* ---------------------------------------------------------------- claims

\* The current request has been answered, once, with status s.
Answered(s) == pc = "done" /\ Len(responses) = 1 /\ responses[1].status = s

Body == responses[1].body

\* The acquisition returned a list of raw records.
HasRawList ==
    /\ settled.t = "ok"
    /\ \/ impl = "scrape"
       \/ (settled.v.t = "object" /\ settled.v.flightData.t = "array")

RawList == IF impl = "api" THEN settled.v.flightData.a ELSE settled.v

\* The three inputs of the status rules, read off a raw record.
RawStatusText(r) ==
    IF impl = "api"
    THEN (IF r.status.t = "string" THEN r.status.s ELSE <<>>)
    ELSE (IF r.statusText = Undefined THEN <<>> ELSE r.statusText.s)

RawHighestSeverity(r) == IF impl = "api" THEN r.statusColor = Str(Red) ELSE r.red

RawMediumSeverity(r) == IF impl = "api" THEN r.statusColor = Str(Amber) ELSE r.amber

RawDelayHint(r) ==
    IF impl = "api"
    THEN /\ r.estimatedTime.t = "string"
         /\ r.estimatedTime.s # <<>>
         /\ r.estimatedTime.s # Dash
         /\ r.estimatedTime # r.scheduledTime
    ELSE r.delayedTimeSmall

\* The ordered rules of the status classifier, first match wins.
RuleStatus(r) ==
    IF includes(toLowerCase(RawStatusText(r)), <<"c", "a", "n", "c", "e", "l">>)
       \/ RawHighestSeverity(r)
    THEN "cancelled"
    ELSE IF \/ includes(toLowerCase(RawStatusText(r)), <<"d", "e", "l", "a", "y">>)
            \/ RawMediumSeverity(r)
            \/ RawDelayHint(r)
    THEN "delayed"
    ELSE "on time"

\* C1: every flight of a report carries the status the ordered rules give for
\* its raw record: cancelled on "cancel" text or the highest-severity marker,
\* else delayed on "delay" text, the medium-severity marker or a true delay
\* hint (with or without status text), else on time.
C1_StatusFollowsOrderedRules ==
    (Answered(200) /\ HasRawList) =>
        \A i \in 1..Len(flights) : flights[i].status = RuleStatus(RawList[i])

\* A raw record with every optional field absent.
AllAbsent(r) == r = (IF impl = "api" THEN ApiEmptyRecord ELSE DomEmptyCard)

\* Normalising the raw record r throws.
NormalizeThrows(r) ==
    IF impl = "api" THEN IsThrown(ApiProcessFlight(r)) ELSE IsThrown(DomProcessCard(r))

\* The terminal the server uses for flight f.
TerminalUsed(f) ==
    IF impl = "api" THEN f.terminal
    ELSE (IF DomHistogramIsT3(f) THEN "T3" ELSE "T2")

FlightLocation(f) == IF impl = "api" THEN f.location ELSE f.origin

\* C2: a raw record with every optional field absent is normalised without an
\* error, to a flight with status on time, terminal T2 and the empty string for
\* airline, flightNumber, location and scheduledTime.
C2_AllAbsentNormalizes ==
    (pc = "done" /\ HasRawList) =>
        \A i \in 1..Len(RawList) :
            AllAbsent(RawList[i]) =>
                /\ ~NormalizeThrows(RawList[i])
                /\ Answered(200) =>
                       /\ flights[i].status = "on time"
                       /\ TerminalUsed(flights[i]) = "T2"
                       /\ flights[i].airline = <<>>
                       /\ flights[i].flightNumber = <<>>
                       /\ FlightLocation(flights[i]) = <<>>
                       /\ flights[i].scheduledTime = <<>>

\* A report was sent for a batch holding a record with every field absent.
C2_Witness ==
    /\ Answered(200)
    /\ HasRawList
    /\ \E i \in 1..Len(RawList) : AllAbsent(RawList[i])
    /\ Len(RawList) > 1

\* The raw records whose normalisation does not throw, in order.
RECURSIVE GoodRecords(_)
GoodRecords(raw) ==
    IF raw = <<>> THEN <<>>
    ELSE (IF NormalizeThrows(Head(raw)) THEN <<>> ELSE <<Head(raw)>>) \o GoodRecords(Tail(raw))

Normalized(r) == IF impl = "api" THEN ApiProcessFlight(r).v ELSE DomProcessCard(r).v

\* C3: when the acquisition returned a batch, the request ends with a report
\* (200) over exactly the records whose normalisation raises no error: a record
\* that raises one is skipped alone.
C3_PerRecordErrorIsolation ==
    (pc = "done" /\ HasRawList) =>
        /\ Answered(200)
        /\ flights = [i \in 1..Len(GoodRecords(RawList)) |-> Normalized(GoodRecords(RawList)[i])]
        /\ Body.flight_statuses.on_time + Body.flight_statuses.cancelled
               + Body.flight_statuses.delayed = Len(GoodRecords(RawList))

\* "qantas" occurs in s in any mix of upper and lower case.
ContainsQantasAnyCase(s) ==
    LET pairs == << {"q", "Q"}, {"a", "A"}, {"n", "N"}, {"t", "T"}, {"a", "A"}, {"s", "S"} >>
    IN  \E o \in 0..(Len(s) - Len(pairs)) : \A k \in 1..Len(pairs) : s[o + k] \in pairs[k]

\* The airline text of a raw record, empty when absent.
RawAirline(r) == IF r.airline.t = "string" THEN r.airline.s ELSE <<>>

IsQantas(r) == ContainsQantasAnyCase(RawAirline(r))

\* C4: in every report, a flight's terminal is T3 exactly when its raw airline
\* text contains "qantas" in any letter case, T2 otherwise (absent or empty
\* airline included), and the hourly histogram counts it under that terminal.
C4_TerminalIffQantas ==
    (Answered(200) /\ HasRawList) =>
        \A qantas \in {[i \in 1..Len(flights) |-> IsQantas(RawList[i])]} :
        \A hour \in {[i \in 1..Len(flights) |-> flightHour(flights[i])]} :
        \A fc \in {Body.flight_count} :
            /\ \A i \in 1..Len(flights) :
                   TerminalUsed(flights[i]) = (IF qantas[i] THEN "T3" ELSE "T2")
            /\ \A h \in Hours :
                   /\ fc[HourKey(h)].T3
                        = Cardinality({i \in 1..Len(flights) :
                              ~hour[i].isNaN /\ hour[i].value = h /\ qantas[i]})
                   /\ fc[HourKey(h)].T2
                        = Cardinality({i \in 1..Len(flights) :
                              ~hour[i].isNaN /\ hour[i].value = h /\ ~qantas[i]})

\* A report over "Qantas Airways", "QANTAS" and "Jetstar": two T3 flights and
\* one T2 flight.
C4_Witness ==
    /\ Answered(200)
    /\ HasRawList
    /\ Len(flights) = 3
    /\ RawAirline(RawList[1]) = QantasAirways /\ TerminalUsed(flights[1]) = "T3"
    /\ RawAirline(RawList[2]) = QANTAS /\ TerminalUsed(flights[2]) = "T3"
    /\ RawAirline(RawList[3]) = Jetstar /\ TerminalUsed(flights[3]) = "T2"

\* C5: the report over an empty flight list has 24 zeroed hour buckets, zero
\* status counts, peak {hour "0-1", count 0} and trough {hour "0-1", count 0},
\* the trough count being the number 0.
C5_EmptyListReport ==
    (Answered(200) /\ flights = <<>>) =>
        /\ DOMAIN Body.flight_count = {HourKey(h) : h \in Hours}
        /\ \A h \in Hours : Body.flight_count[HourKey(h)] = [T2 |-> 0, T3 |-> 0, total |-> 0]
        /\ Body.flight_statuses = [on_time |-> 0, cancelled |-> 0, delayed |-> 0]
        /\ Body.peak_hours.max_flights = [hour |-> HourKey(0), count |-> 0]
        /\ Body.peak_hours.lowest_flights = [hour |-> HourKey(0), count |-> 0]

\* The sum of flight_count[h].total over the hours from h on.
RECURSIVE SumTotals(_, _)
SumTotals(fc, h) ==
    IF h >= HoursPerDay THEN 0 ELSE fc[HourKey(h)].total + SumTotals(fc, h + 1)

\* C6: in every report, the bucket totals of the 24 hours plus the number of
\* flights whose scheduledTime has no parsable hour add up to total_flights,
\* which is the number of flights processed.
C6_RoundTripCount ==
    Answered(200) =>
        /\ SumTotals(Body.flight_count, 0)
               + Cardinality({i \in 1..Len(flights) : flightHour(flights[i]).isNaN})
           = Body.total_flights
        /\ Body.total_flights = Len(flights)

\* The bucket totals of the report.
Total(h) == Body.flight_count[HourKey(h)].total

\* C7: in every report with a flight in the histogram, max_flights is the
\* largest bucket total and lowest_flights the smallest nonzero bucket total,
\* each reported at the smallest hour that has it.
C7_PeakTroughDetection ==
    Answered(200) =>
        \A total \in {[h \in Hours |-> Total(h)]} :
            (\E h \in Hours : total[h] > 0) =>
                LET max == CHOOSE m \in {total[h] : h \in Hours} : \A h \in Hours : total[h] <= m
                    min == CHOOSE m \in {total[h] : h \in Hours} \ {0} :
                               \A h \in Hours : total[h] > 0 => m <= total[h]
                    first(c) == CHOOSE h \in Hours :
                                    total[h] = c /\ \A g \in 0..(h - 1) : total[g] # c
                IN  /\ Body.peak_hours.max_flights
                           = [hour |-> HourKey(first(max)), count |-> max]
                    /\ Body.peak_hours.lowest_flights
                           = [hour |-> HourKey(first(min)), count |-> min]

\* A report where hours 9 and 14 hold one flight each and tie for both the
\* maximum and the minimum: hour 9, the smaller, is reported for both.
C7_Witness ==
    /\ Answered(200)
    /\ Total(9) = 1
    /\ Total(14) = 1
    /\ Body.peak_hours.max_flights.hour = HourKey(9)
    /\ Body.peak_hours.lowest_flights.hour = HourKey(9)

\* The hour buckets and peak hours the server reports for flightCountByHour.
CountsOf(byHour) ==
    [flight_count |-> flightCount(byHour),
     peak_hours |-> IF impl = "api" THEN ApiPeakHours(byHour) ELSE DomPeakHours(byHour)]

\* C8: the status counts, every hour bucket and the peak hours of a report are
\* those of every permutation of its flight list.
C8_OrderInvariant ==
    Answered(200) =>
        \A entries \in {IF impl = "api" THEN ApiEntries(flights) ELSE DomEntries(flights)} :
        \A reported \in {[flight_count |-> Body.flight_count, peak_hours |-> Body.peak_hours]} :
        \A perm \in Permutations(1..Len(flights)) :
            /\ flightStatuses([i \in 1..Len(flights) |-> flights[perm[i]]])
                   = Body.flight_statuses
            /\ \A byHour \in {flightCountByHour([i \in 1..Len(flights) |-> entries[perm[i]]],
                                                EmptyObject)} :
                   CountsOf(byHour) = reported

\* A report over two flights of the same hour and different terminals, followed
\* by a flight of another hour.
C8_Witness ==
    /\ Answered(200)
    /\ Len(flights) = 3
    /\ flightHour(flights[1]) = flightHour(flights[2])
    /\ ~flightHour(flights[1]).isNaN
    /\ TerminalUsed(flights[1]) # TerminalUsed(flights[2])
    /\ flights[1].status # flights[2].status
    /\ flightHour(flights[3]) # flightHour(flights[1])

\* A parameter of the query is supplied with a value outside its accepted set
\* (flightDirection is a parameter of the api server only).
SuppliedOutside(q) ==
    \/ q.date # Undefined /\ ~arrayIncludes(validDates, q.date.s)
    \/ q.flightType # Undefined /\ ~arrayIncludes(validFlightTypes, q.flightType.s)
    \/ /\ impl = "api"
       /\ q.flightDirection # Undefined
       /\ ~arrayIncludes(validDirections, q.flightDirection.s)

\* C9: a request with a supplied date, flightType or flightDirection outside
\* its accepted set (the empty value included) is answered 400 and never
\* starts an acquisition.
C9_ValidationShortCircuits ==
    (pc # "idle" /\ SuppliedOutside(query)) => (Answered(400) /\ acquisitions = 0)

\* The acquisition failed: the source was unreachable or timed out, or the
\* payload has no flightData list.
AcquisitionFailed ==
    \/ settled.t = "throw"
    \/ /\ settled.t = "ok"
       /\ impl = "api"
       /\ (settled.v = Null \/ settled.v.flightData.t # "array")

\* C10: a request whose acquisition failed ends with exactly one response, a
\* 500 of shape {error, message, timestamp}; no report is sent, nothing is
\* aggregated and the acquisition was started once.
C10_AcquisitionFailureAborts ==
    (pc = "done" /\ AcquisitionFailed) =>
        /\ Len(responses) = 1
        /\ responses[1].status = 500
        /\ DOMAIN responses[1].body = {"error", "message", "timestamp"}
        /\ flights = <<>>
        /\ acquisitions = 1

\* The api request timed out, or its payload had no flightData, and was
\* answered 500.
C10_Witness ==
    /\ pc = "done"
    /\ impl = "api"
    /\ \/ settled = Thrown(AxiosTimeout)
       \/ settled = Ok([t |-> "object", flightData |-> Undefined, totalFlightCount |-> 0])
    /\ responses[1].status = 500

\* C11: every flight of a report carries an all-lowercase airline, so that two
\* raw airlines differing only in letter case give one entry of the report's
\* airlines list.
C11_AirlineLowercase ==
    Answered(200) =>
        /\ \A i \in 1..Len(flights) : flights[i].airline = toLowerCase(flights[i].airline)
        /\ \A j, k \in 1..Len(Body.airlines) :
               toLowerCase(Body.airlines[j]) = toLowerCase(Body.airlines[k]) => j = k

\* C12: in every report, the bucket of each hour h of 0..23 has T3 and T2
\* equal to the numbers of flights parsed to hour h with terminal T3 and T2,
\* and total = T2 + T3 (all zero for an hour without flights); adding one
\* flight with a parsable hour to the histogram raises one terminal counter and
\* the total of one bucket by one and touches no other bucket.
C12_HistogramContent ==
    Answered(200) =>
        \A hour \in {[i \in 1..Len(flights) |-> flightHour(flights[i])]} :
        \A t3 \in {[i \in 1..Len(flights) |-> TerminalUsed(flights[i]) = "T3"]} :
        \A fc \in {Body.flight_count} :
            /\ DOMAIN fc = {HourKey(h) : h \in Hours}
            /\ \A h \in Hours :
                   \A at \in {{i \in 1..Len(flights) : ~hour[i].isNaN /\ hour[i].value = h}} :
                       /\ fc[HourKey(h)].T3 = Cardinality({i \in at : t3[i]})
                       /\ fc[HourKey(h)].T2 = Cardinality({i \in at : ~t3[i]})
                       /\ fc[HourKey(h)].total = fc[HourKey(h)].T2 + fc[HourKey(h)].T3
                       /\ at = {} => fc[HourKey(h)] = [T2 |-> 0, T3 |-> 0, total |-> 0]
            /\ \A i \in 1..Len(flights) :
                   ~hour[i].isNaN =>
                       \A one \in {countFlight(EmptyObject, hour[i], t3[i])} :
                           /\ DOMAIN one = {hour[i].value}
                           /\ one[hour[i].value]
                                  = [T2 |-> IF t3[i] THEN 0 ELSE 1,
                                     T3 |-> IF t3[i] THEN 1 ELSE 0,
                                     total |-> 1]

\* The report of the documented scenario: hour 9 holds one T2 and one T3
\* flight, hour 14 one T3 flight, hour 0 none.
C12_Witness ==
    /\ Answered(200)
    /\ Len(flights) = 3
    /\ Body.flight_count[HourKey(9)] = [T2 |-> 1, T3 |-> 1, total |-> 2]
    /\ Body.flight_count[HourKey(14)] = [T2 |-> 0, T3 |-> 1, total |-> 1]
    /\ Body.flight_count[HourKey(0)] = [T2 |-> 0, T3 |-> 0, total |-> 0]

\* list holds every non-empty element of values exactly once, nothing else,
\* and in the order of the first occurrences in values.
IsFirstSeenList(list, values) ==
    LET firstAt(v) == CHOOSE i \in 1..Len(values) :
                          values[i] = v /\ \A j \in 1..(i - 1) : values[j] # v
    IN  /\ \A i \in 1..Len(values) :
               values[i] # <<>> =>
                   Cardinality({k \in 1..Len(list) : list[k] = values[i]}) = 1
        /\ \A k \in 1..Len(list) :
               /\ list[k] # <<>>
               /\ \E i \in 1..Len(values) : values[i] = list[k]
        /\ \A j, k \in 1..Len(list) : j < k => firstAt(list[j]) < firstAt(list[k])

\* The report's list of locations: locations on the api server, origins on the
\* scrape server.
ReportLocations == IF impl = "api" THEN Body.locations ELSE Body.origins

\* C13: in every report, the airlines list and the locations/origins list hold
\* each non-empty value of the flight list exactly once, no empty string and no
\* value the flight list lacks, ordered by first occurrence.
C13_UniqueValues ==
    Answered(200) =>
        /\ IsFirstSeenList(Body.airlines, [i \in 1..Len(flights) |-> flights[i].airline])
        /\ IsFirstSeenList(ReportLocations,
                           [i \in 1..Len(flights) |-> FlightLocation(flights[i])])

\* A report over three flights where the first and third share an airline, the
\* second has another and one flight has no location: two airlines are listed,
\* in first-seen order.
C13_Witness ==
    /\ Answered(200)
    /\ Len(flights) = 3
    /\ flights[1].airline # <<>>
    /\ flights[3].airline = flights[1].airline
    /\ flights[2].airline \notin {<<>>, flights[1].airline}
    /\ \E i \in 1..3 : FlightLocation(flights[i]) = <<>>
    /\ Body.airlines = <<flights[1].airline, flights[2].airline>>

====
